---------------------------- MODULE Spec2Model ----------------------------
(***************************************************************************)
(* Model of the statistical helpers of Nexus (package helpers, the file    *)
(* src/unnamed/part_008: CalcHurstExponent, CalcMeanReversionHalfLife,     *)
(* ExecCointegratedADFTest, ExecJohansenTest, CaclulateBollingerBands and  *)
(* the regression and descriptive-statistics wrappers).                    *)
(*                                                                         *)
(* float64 values are extended rationals <<n, d>> in lowest terms:         *)
(*   d > 0     the finite value n/d                                        *)
(*   <<1, 0>>  +Inf      <<-1, 0>>  -Inf      <<0, 0>>  NaN                *)
(* + - * / follow IEEE-754 on the special values and are exact on finite   *)
(* values (rounding to 53 bits is not modelled).  math.Sqrt and math.Log   *)
(* are exact where the result is rational and are otherwise rounded to a   *)
(* multiple of 1/SqrtScale, 1/LogScale.                                    *)
(***************************************************************************)
EXTENDS Integers, Sequences, FiniteSets, TLC

VARIABLES pc, call, ret, heap, gor, aws, thr, ds, rev

vars == <<pc, call, ret, heap, gor, aws, thr, ds, rev>>

\* a single caller: one call and its result
callVars == <<pc, call, ret>>

\* concurrent callers: the cells of a shared input slice and the goroutines
concVars == <<heap, gor>>

\* the services: the package-level AWS handles and what was made and sent through

(***************************************************************************)
(* Bounds of the model.                                                    *)
(***************************************************************************)
MaxVal == 1
MaxLen == 6
MaxLevel == 2
MaxLevelLen == 4
MaxPairLen == 2
MaxWindow == 4
MaxRows == 3
MaxCols == 2
MaxLag == 2
MaxTime == 2
MaxBars == 2
MaxPredictors == 2
ConcLen == 4
AwsThreads == 2
MaxChecks == 3
MaxPublished == 2
MaxPolls == 8
MaxNumberOfMessages == 1
SqrtScale == 100
LogScale == 100

(***************************************************************************)
(* float64 arithmetic.                                                     *)
(***************************************************************************)
Abs(i) == IF i < 0 THEN -i ELSE i

Sign(i) == IF i > 0 THEN 1 ELSE IF i < 0 THEN -1 ELSE 0

RECURSIVE GCD(_, _)
GCD(a, b) == IF b = 0 THEN a ELSE GCD(b, a % b)

Norm(n, d) ==
    IF d = 0 THEN <<Sign(n), 0>>
    ELSE LET g == GCD(Abs(n), Abs(d))
             s == Sign(d)
         IN  <<(s * n) \div g, (s * d) \div g>>

NaN == <<0, 0>>
PosInf == <<1, 0>>
NegInf == <<-1, 0>>
Zero == <<0, 1>>
F(i) == <<i, 1>>
Q(n, d) == Norm(n, d)

IsNaN(a) == a = NaN
IsInf(a) == a[2] = 0 /\ a[1] # 0
IsFinite(a) == a[2] > 0

\* a slice with its elements computed: the tuple of f[1], ..., f[Len(f)]
Tup(f) == SubSeq(f, 1, Len(f))

FNeg(a) == <<-a[1], a[2]>>

FAdd(a, b) ==
    IF IsNaN(a) \/ IsNaN(b) THEN NaN
    ELSE IF IsInf(a) THEN (IF IsInf(b) /\ b # a THEN NaN ELSE a)
    ELSE IF IsInf(b) THEN b
    ELSE LET g == GCD(a[2], b[2])
         IN  Norm(a[1] * (b[2] \div g) + b[1] * (a[2] \div g), (a[2] \div g) * b[2])

FSub(a, b) == FAdd(a, FNeg(b))

FMul(a, b) ==
    IF IsNaN(a) \/ IsNaN(b) THEN NaN
    ELSE IF a[2] = 0 \/ b[2] = 0 THEN <<Sign(a[1]) * Sign(b[1]), 0>>
    ELSE LET g1 == GCD(Abs(a[1]), b[2])
             g2 == GCD(Abs(b[1]), a[2])
         IN  Norm((a[1] \div g1) * (b[1] \div g2), (a[2] \div g2) * (b[2] \div g1))

\* 1/b; the zero of the model is +0, so 1/0 = +Inf
FRecip(b) ==
    IF IsNaN(b) THEN NaN
    ELSE IF b[2] = 0 THEN Zero
    ELSE IF b[1] = 0 THEN PosInf
    ELSE IF b[1] > 0 THEN <<b[2], b[1]>>
    ELSE <<-b[2], -b[1]>>

FDiv(a, b) == FMul(a, FRecip(b))

\* a < b, a > b, a >= b as float64 compares: false as soon as one side is NaN
FLt(a, b) ==
    /\ ~IsNaN(a)
    /\ ~IsNaN(b)
    /\ IF a[2] = 0 /\ b[2] = 0 THEN a[1] < b[1] ELSE a[1] * b[2] < b[1] * a[2]

FGt(a, b) == FLt(b, a)

FEq(a, b) == ~IsNaN(a) /\ ~IsNaN(b) /\ a = b

FGe(a, b) == FGt(a, b) \/ FEq(a, b)

FLe(a, b) == FLt(a, b) \/ FEq(a, b)

\* math.Min, math.Max: NaN if either argument is NaN
FMin(a, b) == IF IsNaN(a) \/ IsNaN(b) THEN NaN ELSE IF FLt(b, a) THEN b ELSE a

FMax(a, b) == IF IsNaN(a) \/ IsNaN(b) THEN NaN ELSE IF FGt(b, a) THEN b ELSE a

\* largest r in lo..hi with r * r <= v, by bisection
RECURSIVE SqrtBetween(_, _, _)
SqrtBetween(v, lo, hi) ==
    IF lo >= hi THEN lo
    ELSE LET mid == (lo + hi + 1) \div 2
         IN  IF mid * mid <= v THEN SqrtBetween(v, mid, hi) ELSE SqrtBetween(v, lo, mid - 1)

\* largest r with r * r <= v
ISqrt(v) == SqrtBetween(v, 0, IF v < 46340 THEN v ELSE 46340)

IsSquare(v) == ISqrt(v) * ISqrt(v) = v

\* math.Sqrt
Sqrt(a) ==
    IF IsNaN(a) \/ a[1] < 0 THEN NaN
    ELSE IF a[2] = 0 THEN PosInf
    ELSE IF IsSquare(a[1]) /\ IsSquare(a[2]) THEN <<ISqrt(a[1]), ISqrt(a[2])>>
    ELSE Norm(ISqrt((a[1] * SqrtScale * SqrtScale) \div a[2]), SqrtScale)


\* 2^k <= n/d < 2^(k+1): the binary exponent k and the mantissa n/d in [1, 2)
RECURSIVE Frexp(_, _, _)
Frexp(n, d, k) ==
    IF n < d THEN Frexp(2 * n, d, k - 1)
    ELSE IF n >= 2 * d THEN Frexp(n, 2 * d, k + 1)
    ELSE <<n, d, k>>

\* ln(n/d) in units of 1/10000, n/d > 0: k*ln 2 + 2*atanh(z), z = (m-1)/(m+1)
LogFix(n, d) ==
    LET fr == Frexp(n, d, 0)
        sh == ((fr[1] + fr[2]) \div 100000) + 1
        mn == fr[1] \div sh
        md == fr[2] \div sh
        z  == ((mn - md) * 10000) \div (mn + md)
        z2 == (z * z) \div 10000
        z3 == (z * z2) \div 10000
        z5 == (z3 * z2) \div 10000
        z7 == (z5 * z2) \div 10000
        z9 == (z7 * z2) \div 10000
    IN  fr[3] * 6931 + 2 * (z + (z3 \div 3) + (z5 \div 5) + (z7 \div 7) + (z9 \div 9))

\* math.Log
Log(a) ==
    IF IsNaN(a) \/ a[1] < 0 THEN NaN
    ELSE IF a[2] = 0 THEN PosInf
    ELSE IF a[1] = 0 THEN NegInf
    ELSE IF a = F(1) THEN Zero
    ELSE Norm((LogFix(a[1], a[2]) * LogScale + 5000) \div 10000, LogScale)

(***************************************************************************)
(* gonum stat, as the helpers call it (weights nil, origin false).         *)
(***************************************************************************)
RECURSIVE SumTo(_, _)
SumTo(s, i) == IF i = 0 THEN Zero ELSE FAdd(SumTo(s, i - 1), s[i])

\* floats.Sum
Sum(s) == SumTo(s, Len(s))

\* stat.Mean: Sum(x) / len(x); NaN for the empty slice (0/0)
CalcMean(series) == FDiv(Sum(series), F(Len(series)))

\* x[i] - mean for every i
Deviations(x, mean) == Tup([i \in 1..Len(x) |-> FSub(x[i], mean)])

\* stat.Variance: the unbiased sample variance, divisor len(x) - 1
CalcVariance(series) ==
    LET n    == Len(series)
        dev  == Deviations(series, CalcMean(series))
        ss   == Sum(Tup([i \in 1..n |-> FMul(dev[i], dev[i])]))
        comp == Sum(dev)
    IN  FDiv(FSub(ss, FDiv(FMul(comp, comp), F(n))), F(n - 1))

\* stat.StdDev
CalcStandardDeviation(series) == Sqrt(CalcVariance(series))

\* stat.LinearRegression(x, y, nil, false) for len(x) = len(y): <<alpha, beta>>,
\* the intercept first and the slope second
LinearRegression(x, y) ==
    LET n    == Len(x)
        xu   == CalcMean(x)
        xv   == CalcVariance(x)
        yu   == CalcMean(y)
        xd   == Deviations(x, xu)
        yd   == Deviations(y, yu)
        ss   == Sum(Tup([i \in 1..n |-> FMul(xd[i], yd[i])]))
        cov  == FDiv(FSub(ss, FDiv(FMul(Sum(xd), Sum(yd)), F(n))), F(n - 1))
        beta == FDiv(cov, xv)
    IN  <<FSub(yu, FMul(beta, xu)), beta>>

\* the two results handed back in the other order: slope first
SimpleLinearRegression_SlopeFirst(x, y) ==
    <<LinearRegression(x, y)[2], LinearRegression(x, y)[1]>>

\* return stat.LinearRegression(x, y, nil, false)
SimpleLinearRegression(x, y) == LinearRegression(x, y)

(***************************************************************************)
(* CalcHurstExponent                                                       *)
(***************************************************************************)
ErrTooShort == "the length of the series must be at least 2"

RECURSIVE FoldMin(_, _)
FoldMin(s, i) == IF i = 0 THEN s[1] ELSE FMin(FoldMin(s, i - 1), s[i])

RECURSIVE FoldMax(_, _)
FoldMax(s, i) == IF i = 0 THEN s[1] ELSE FMax(FoldMax(s, i - 1), s[i])

rangeOf(series) == FSub(FoldMax(series, Len(series)), FoldMin(series, Len(series)))

\* the running sums of deviations: cumulativeSum[j] = cumulativeSum[j-1] + deviations[j]
CumulativeSum(deviations) == Tup([j \in 1..Len(deviations) |-> SumTo(deviations, j)])

\* the subset sizes of the outer loop: n = 2; n <= len(series)/2; n++
WindowSizes(len) ==
    IF len \div 2 < 2 THEN <<>> ELSE Tup([k \in 1..((len \div 2) - 1) |-> k + 1])

\* windows that start at every index instead of every n-th
WindowStarts_Overlapping(len, n) == Tup([k \in 1..(len - n + 1) |-> k - 1])

\* the window starts of the inner loop: i = 0; i + n <= len(series); i += n
WindowStarts(len, n) == Tup([k \in 1..(len \div n) |-> (k - 1) * n])

\* series[i:i+n], i 0-based
Window(series, i, n) == SubSeq(series, i + 1, i + n)

\* one pass of the inner loop body: <<stdDev, r>> of one window
WindowRS(subset) ==
    LET mean   == CalcMean(subset)
        stdDev == CalcStandardDeviation(subset)
        r      == rangeOf(CumulativeSum(Deviations(subset, mean)))
    IN  <<stdDev, r>>

\* the guard dropped: every window's r / stdDev is appended
KeepsWindow_Always(stdDev) == TRUE

\* if stdDev > 0
KeepsWindow(stdDev) == FGt(stdDev, Zero)

\* rsValues after the windows k..end of size n: r / stdDev where stdDev > 0
RECURSIVE RsValues(_, _, _)
RsValues(series, n, k) ==
    IF k > Len(WindowStarts(Len(series), n)) THEN <<>>
    ELSE LET w == WindowRS(Window(series, WindowStarts(Len(series), n)[k], n))
         IN  (IF KeepsWindow(w[1]) THEN <<FDiv(w[2], w[1])>> ELSE <<>>)
               \o RsValues(series, n, k + 1)

\* rsValues of every subset size, in the order of the outer loop
HurstRsValues(series) ==
    Tup([k \in 1..Len(WindowSizes(Len(series))) |->
            RsValues(series, WindowSizes(Len(series))[k], 1)])

\* <<logN, logRS>> after the subset sizes k-th..last, rsAll the rsValues of each
RECURSIVE LogPairs(_, _, _)
LogPairs(series, rsAll, k) ==
    IF k > Len(rsAll) THEN <<<<>>, <<>>>>
    ELSE LET rs   == rsAll[k]
             n    == WindowSizes(Len(series))[k]
             rest == LogPairs(series, rsAll, k + 1)
         IN  IF Len(rs) > 0
             THEN <<<<Log(F(n))>> \o rest[1], <<Log(CalcMean(rs))>> \o rest[2]>>
             ELSE rest

\* every subset series[i:i+n] the two loops take, as <<n, i, i + n>>
HurstWindows(len) ==
    UNION {{<<WindowSizes(len)[k], WindowStarts(len, WindowSizes(len)[k])[j],
              WindowStarts(len, WindowSizes(len)[k])[j] + WindowSizes(len)[k]>> :
               j \in 1..Len(WindowStarts(len, WindowSizes(len)[k]))} :
           k \in 1..Len(WindowSizes(len))}

\* which of the two results of the regression the function returns:
\* "slope, _ := stat.LinearRegression(...)" binds the first one
HurstPick(reg) == reg[1]

\* the guard "len(series) < 2" with the bound off by one
HurstTooShort_OffByOne(series) == Len(series) < 1

\* len(series) < 2
HurstTooShort(series) == Len(series) < 2

CalcHurstExponent(series) ==
    IF HurstTooShort(series)
    THEN [value |-> Zero, err |-> ErrTooShort, logN |-> <<>>, logRS |-> <<>>,
          windows |-> {}, rsValues |-> <<>>, regressed |-> FALSE]
    ELSE LET rs  == HurstRsValues(series)
             lp  == LogPairs(series, rs, 1)
             reg == LinearRegression(lp[1], lp[2])
         IN  [value |-> HurstPick(reg), err |-> "", logN |-> lp[1], logRS |-> lp[2],
              windows |-> HurstWindows(Len(series)), rsValues |-> rs,
              regressed |-> TRUE]

(***************************************************************************)
(* CalcMeanReversionHalfLife                                               *)
(***************************************************************************)
ErrNotMeanReverting == "series does not exhibit mean reversion (theta >= 0)"

\* changes[i] = y[i] - x[i] with x = series[:len-1], y = series[1:]
\* the levels y[i] themselves in place of the increments y[i] - x[i]
Changes_Levels(series) == SubSeq(series, 2, Len(series))

Changes(series) == Tup([i \in 1..(Len(series) - 1) |-> FSub(series[i + 1], series[i])])

\* the guard with a strict comparison: beta = 0 accepted
HalfLifeRejects_Strict(beta) == FGt(beta, Zero)

\* the guard "beta >= 0" of the function
HalfLifeRejects(beta) == FGe(beta, Zero)

\* len(series) < 2
HalfLifeTooShort(series) == Len(series) < 2

CalcMeanReversionHalfLife(series) ==
    IF HalfLifeTooShort(series)
    THEN [value |-> Zero, err |-> ErrTooShort, beta |-> Zero, regressed |-> FALSE]
    ELSE LET x    == SubSeq(series, 1, Len(series) - 1)
             beta == LinearRegression(x, Changes(series))[2]
         IN  IF HalfLifeRejects(beta)
             THEN [value |-> Zero, err |-> ErrNotMeanReverting, beta |-> beta,
                   regressed |-> TRUE]
             ELSE [value |-> FDiv(Log(F(2)), FNeg(beta)), err |-> "", beta |-> beta,
                   regressed |-> TRUE]

(***************************************************************************)
(* ExecADFTest and ExecCointegratedADFTest.  The ADF routine is the        *)
(* package github.com/berkmancenter/adf; what it answers is an input of    *)
(* the model: adf = [isStationary, statistic].                             *)
(***************************************************************************)
\* adf.New(series, 0, lag); Run(); return IsStationary(), Statistic
ExecADFTest(series, lag, adf) ==
    [isStationary |-> adf.isStationary, statistic |-> adf.statistic,
     calls |-> <<[series |-> series, pvalue |-> Zero, lag |-> lag]>>]

\* the spread without the intercept: seriesY[i] - beta*seriesX[i]
Residual_NoIntercept(alpha, beta, x, y) == FSub(y, FMul(beta, x))

\* residuals[i] = seriesY[i] - (alpha + beta*seriesX[i])
Residual(alpha, beta, x, y) == FSub(y, FAdd(alpha, FMul(beta, x)))

\* the two results of the regression taken in the other order
CointRatio_Intercept(reg) == reg[1]

\* the hedge ratio the function returns: beta of "alpha, beta := SimpleLinearRegression"
CointRatio(reg) == reg[2]

\* the function up to the residuals: the regression and the loop.
\* stat.LinearRegression panics on len(x) != len(y)
\* the regression run the other way round: seriesX on seriesY
CointRegress_Swapped(seriesX, seriesY) ==
    IF Len(seriesX) # Len(seriesY)
    THEN [kind |-> "panic", ratio |-> Zero, residuals |-> <<>>]
    ELSE LET reg == SimpleLinearRegression(seriesY, seriesX)
         IN  [kind |-> "ok", ratio |-> CointRatio(reg),
              residuals |-> Tup([i \in 1..Len(seriesX) |->
                               Residual(reg[1], reg[2], seriesY[i], seriesX[i])])]

CointRegress(seriesX, seriesY) ==
    IF Len(seriesX) # Len(seriesY)
    THEN [kind |-> "panic", ratio |-> Zero, residuals |-> <<>>]
    ELSE LET reg == SimpleLinearRegression(seriesX, seriesY)
         IN  [kind |-> "ok", ratio |-> CointRatio(reg),
              residuals |-> Tup([i \in 1..Len(seriesX) |->
                               Residual(reg[1], reg[2], seriesX[i], seriesY[i])])]

\* the function from ExecADFTest(residuals, lag) on
CointTest(reg, lag, adf) ==
    IF reg.kind = "panic"
    THEN [kind |-> "panic", isCointegrated |-> FALSE, testStatistic |-> Zero,
          ratio |-> Zero, residuals |-> <<>>, adfCalls |-> <<>>]
    ELSE LET test == ExecADFTest(reg.residuals, lag, adf)
         IN  [kind |-> "ok", isCointegrated |-> test.isStationary,
              testStatistic |-> test.statistic, ratio |-> reg.ratio,
              residuals |-> reg.residuals, adfCalls |-> test.calls]

ExecCointegratedADFTest(seriesX, seriesY, lag, adf) ==
    CointTest(CointRegress(seriesX, seriesY), lag, adf)

(***************************************************************************)
(* ExecJohansenTest.  Matrices are sequences of rows.  mat.QR and          *)
(* mat.EigenSym are gonum: the least-squares solve is computed (normal     *)
(* equations, exact), the eigen-decomposition's answer is an input of the  *)
(* model: eig = [ok, values], values ascending as EigenSym returns them.   *)
(***************************************************************************)
ErrEmpty == "time series cannot be empty"
ErrLag == "lag must be greater than 0 and less than the number of rows"
ErrCondition == "matrix singular or near-singular"
ErrEigen == "eigenvalue decomposition failed"

NumRows(m) == Len(m)
NumCols(m) == IF Len(m) = 0 THEN 0 ELSE Len(m[1])

Transpose(m) == Tup([j \in 1..NumCols(m) |-> Tup([i \in 1..NumRows(m) |-> m[i][j]])])

\* a (r x n) times b (n x c)
MatMul(a, b) ==
    Tup([i \in 1..NumRows(a) |-> Tup([j \in 1..NumCols(b) |->
        Sum(Tup([l \in 1..NumCols(a) |-> FMul(a[i][l], b[l][j])]))])])

\* Gauss-Jordan on the rows of [M | R], pivot column c of k; <<>> when M is singular
RECURSIVE Eliminate(_, _, _)
Eliminate(aug, c, k) ==
    IF c > k THEN aug
    ELSE LET cand == {p \in c..k : aug[p][c] # Zero}
         IN  IF cand = {} THEN <<>>
             ELSE LET p    == CHOOSE q \in cand : \A q2 \in cand : q <= q2
                      prow == Tup([j \in 1..Len(aug[p]) |-> FDiv(aug[p][j], aug[p][c])])
                      swp  == Tup([i \in 1..k |-> IF i = c THEN aug[p]
                                                  ELSE IF i = p THEN aug[c] ELSE aug[i]])
                      nxt  == Tup([i \in 1..k |->
                                 IF i = c THEN prow
                                 ELSE Tup([j \in 1..Len(prow) |->
                                         FSub(swp[i][j], FMul(swp[i][c], prow[j]))])])
                  IN  Eliminate(nxt, c + 1, k)

\* qr.Factorize(a); qr.SolveTo(&dst, false, b): the X minimising ||a*X - b||, of
\* shape cols(a) x cols(b).  Factorize panics (ErrShape) when rows(a) < cols(a),
\* SolveTo panics (ErrShape) when rows(a) # rows(b) and returns a Condition error
\* when a is rank deficient.
QRSolve(a, b) ==
    IF NumRows(a) < NumCols(a) \/ NumRows(a) # NumRows(b)
    THEN [kind |-> "panic", x |-> <<>>]
    ELSE LET k   == NumCols(a)
             at  == Transpose(a)
             m   == MatMul(at, a)
             r   == MatMul(at, b)
             sol == Eliminate(Tup([i \in 1..k |-> m[i] \o r[i]]), 1, k)
         IN  IF sol = <<>> THEN [kind |-> "err", x |-> <<>>]
             ELSE [kind |-> "ok",
                   x |-> Tup([i \in 1..k |-> SubSeq(sol[i], k + 1, k + NumCols(b))])]

\* lagged[i - lag] = copy of series[i - lag], i = lag..nRows-1
Lagged(series, lag) == Tup([i \in 1..(NumRows(series) - lag) |-> series[i]])

\* differenced[i - 1][j] = series[i][j] - series[i - 1][j], i = 1..nRows-1
Differenced(series) ==
    Tup([i \in 1..(NumRows(series) - 1) |->
        Tup([j \in 1..NumCols(series) |-> FSub(series[i + 1][j], series[i][j])])])

\* cov(i, j) = sum over the rows r of residuals(r, i) * residuals(r, j), / (nRows - 1)
computeCovarianceMatrix(residuals) ==
    LET nRows == NumRows(residuals)
        nCols == NumCols(residuals)
    IN  Tup([i \in 1..nCols |-> Tup([j \in 1..nCols |->
            FDiv(Sum(Tup([r \in 1..nRows |-> FMul(residuals[r][i], residuals[r][j])])),
                 F(nRows - 1))])])

\* the guard dropped: every eigenvalue is summed
CountsEigenvalue_Always(eig) == TRUE

\* if eig > 0
CountsEigenvalue(eig) == FGt(eig, Zero)

\* traceStat after the loop over eigenvalues[1..i], before the negation
RECURSIVE TraceSum(_, _)
TraceSum(eigenvalues, i) ==
    IF i = 0 THEN Zero
    ELSE LET acc == TraceSum(eigenvalues, i - 1)
         IN  IF CountsEigenvalue(eigenvalues[i])
             THEN FAdd(acc, Log(FSub(F(1), eigenvalues[i])))
             ELSE acc

criticalValue == Q(1541, 100)

\* the comparison with >= for >
JohansenVerdict_AtLeast(traceStat) == FGe(traceStat, criticalValue)

\* isCointegrated = traceStat > criticalValue
JohansenVerdict(traceStat) == FGt(traceStat, criticalValue)

\* the emptiness test without its second disjunct
JohansenIsEmpty_RowsOnly(series) == NumRows(series) = 0

\* len(series) == 0 || len(series[0]) == 0
JohansenIsEmpty(series) == NumRows(series) = 0 \/ NumCols(series) = 0

\* lag <= 0 || lag >= nRows
JohansenBadLag(lag, nRows) == lag <= 0 \/ lag >= nRows

JohansenReturn(kind, isCointegrated, stat, err, built, residuals, cov) ==
    [kind |-> kind, isCointegrated |-> isCointegrated, testStatistic |-> stat,
     err |-> err, built |-> built, residuals |-> residuals, cov |-> cov]

\* the function up to the covariance matrix: the two guards, the lagged and the
\* differenced matrix, the least-squares solve (whose result the code names
\* residuals) and computeCovarianceMatrix.  mat.NewDense(r, c, data) panics on a
\* zero dimension.  kind "ok" here means: eig.Factorize is reached
JohansenRegress(series, lag) ==
    IF JohansenIsEmpty(series)
    THEN JohansenReturn("err", FALSE, Zero, ErrEmpty, FALSE, <<>>, <<>>)
    ELSE IF JohansenBadLag(lag, NumRows(series))
    THEN JohansenReturn("err", FALSE, Zero, ErrLag, FALSE, <<>>, <<>>)
    ELSE LET lagged      == Lagged(series, lag)
             differenced == Differenced(series)
             qr          == QRSolve(lagged, differenced)
         IN  IF NumRows(lagged) * NumCols(series) = 0 \/ qr.kind = "panic"
             THEN JohansenReturn("panic", FALSE, Zero, "", TRUE, <<>>, <<>>)
             ELSE IF qr.kind = "err"
             THEN JohansenReturn("err", FALSE, Zero, ErrCondition, TRUE, <<>>, <<>>)
             ELSE JohansenReturn("ok", FALSE, Zero, "", TRUE, qr.x,
                                 computeCovarianceMatrix(qr.x))

\* the function from eig.Factorize on: the trace statistic and the verdict
JohansenTrace(reg, eig) ==
    IF reg.kind # "ok" THEN reg
    ELSE IF ~eig.ok
    THEN JohansenReturn("err", FALSE, Zero, ErrEigen, TRUE, reg.residuals, reg.cov)
    ELSE LET traceStat == FNeg(TraceSum(eig.values, Len(eig.values)))
         IN  JohansenReturn("ok", JohansenVerdict(traceStat), traceStat, "", TRUE,
                            reg.residuals, reg.cov)

ExecJohansenTest(series, lag, eig) == JohansenTrace(JohansenRegress(series, lag), eig)

(***************************************************************************)
(* CaclulateBollingerBands                                                 *)
(***************************************************************************)
ErrWindow == "the length of the series must be at least the window size"

\* the guard with <=: a series exactly as long as the window is refused
BollingerTooShort_OrEqual(series, window) == Len(series) <= window

\* len(series) < window
BollingerTooShort(series, window) == Len(series) < window

\* bands that hold the computed entries only
BandLength_Computed(series, window) == Len(series) - window

\* make([]float64, len(series)) for both bands
BandLength(series, window) == Len(series)

\* the body of the loop at 0-based index i: <<upperBand[i], lowerBand[i]>>
BandAt(series, window, i) ==
    LET subset == SubSeq(series, i - window + 1, i)
        mean   == CalcMean(subset)
        stdDev == CalcStandardDeviation(subset)
    IN  <<FAdd(mean, FMul(F(2), stdDev)), FSub(mean, FMul(F(2), stdDev))>>

\* bands are 1-based here: upper[i + 1] is upperBand[i].  make() zeroes both bands;
\* a negative window makes series[i-window:i] an invalid slice expression (panic)
CaclulateBollingerBands(series, window) ==
    IF BollingerTooShort(series, window)
    THEN [kind |-> "err", upper |-> <<>>, lower |-> <<>>, err |-> ErrWindow,
          assigned |-> {}]
    ELSE IF window < 0
    THEN [kind |-> "panic", upper |-> <<>>, lower |-> <<>>, err |-> "",
          assigned |-> {}]
    ELSE LET bands == Tup([i \in 1..Len(series) |->
                        IF i - 1 >= window THEN BandAt(series, window, i - 1)
                        ELSE <<Zero, Zero>>])
         IN  [kind |-> "ok",
              upper |-> Tup([i \in 1..BandLength(series, window) |-> bands[i][1]]),
              lower |-> Tup([i \in 1..BandLength(series, window) |-> bands[i][2]]),
              err |-> "",
              assigned |-> {i \in 0..(Len(series) - 1) : i >= window}]

(***************************************************************************)
(* MultipleLinearRegression and NormalizeBarData.  A bar is                *)
(* [Timestamp, Close]; the other fields of marketdata.Bar are carried      *)
(* along by the copy in the same way.                                      *)
(***************************************************************************)
\* return 0.0, 0.0: two floats and no error value, whatever the arguments
MultipleLinearRegression(seriesY, seriesX) == [values |-> <<Zero, Zero>>, err |-> ""]

\* seriesYMap after the first i bars of seriesY: timestamp -> bar, the last bar
\* of a timestamp replacing the earlier ones
RECURSIVE SeriesYMap(_, _)
SeriesYMap(seriesY, i) ==
    IF i = 0 THEN <<>>
    ELSE LET m   == SeriesYMap(seriesY, i - 1)
             bar == seriesY[i]
         IN  [t \in (DOMAIN m) \cup {bar.Timestamp} |->
                 IF t = bar.Timestamp THEN bar ELSE m[t]]

\* the lookup dropped: every bar of seriesX is matched, with itself
NormalizeStep_NoLookup(m, bar) == <<bar>>

\* the bar of seriesX handed out as the match found in seriesY
NormalizeStep_EchoBar(m, bar) ==
    IF bar.Timestamp \in DOMAIN m THEN <<bar>> ELSE <<>>

\* val, exist := seriesYMap[bar.Timestamp]: <<val>> if exist, <<>> if not
NormalizeStep(m, bar) ==
    IF bar.Timestamp \in DOMAIN m THEN <<m[bar.Timestamp]>> ELSE <<>>

\* <<seriesA, seriesB>> after the first i bars of seriesX
RECURSIVE NormalizeLoop(_, _, _)
NormalizeLoop(seriesX, m, i) ==
    IF i = 0 THEN <<<<>>, <<>>>>
    ELSE LET rest == NormalizeLoop(seriesX, m, i - 1)
             val  == NormalizeStep(m, seriesX[i])
         IN  IF Len(val) > 0
             THEN <<Append(rest[1], seriesX[i]), Append(rest[2], val[1])>>
             ELSE rest

NormalizeBarData(seriesX, seriesY) ==
    LET out == NormalizeLoop(seriesX, SeriesYMap(seriesY, Len(seriesY)), Len(seriesX))
    IN  [seriesA |-> out[1], seriesB |-> out[2]]

(***************************************************************************)
(* The inputs of the model and the calls a client makes.                   *)
(***************************************************************************)
Vals == {F(v) : v \in 0..MaxVal}

SeriesOfLen(len) == [1..len -> Vals]

AllSeries(maxLen) == UNION {SeriesOfLen(len) : len \in 0..maxLen}

\* price levels for the half-life regression: three levels let the increments
\* rise with the level, stay flat or fall with it
LevelSeries == UNION {[1..len -> {F(v) : v \in 0..MaxLevel}] : len \in 0..MaxLevelLen}

\* pairs of equal length, and pairs where one series lacks the other's last value
SeriesPairs ==
    {<<x, y>> \in AllSeries(MaxPairLen) \X AllSeries(MaxPairLen) :
        \/ Len(x) = Len(y)
        \/ Len(x) > 0 /\ y = SubSeq(x, 1, Len(x) - 1)
        \/ Len(y) > 0 /\ x = SubSeq(y, 1, Len(y) - 1)}

\* pairs of three observations, x over the price levels of the half-life inputs:
\* the two series of such a pair can differ in variance
LevelPairs == [1..3 -> {F(v) : v \in 0..MaxLevel}] \X SeriesOfLen(3)

Lags == 1..MaxLag

AdfAnswers == [isStationary : BOOLEAN, statistic : {Q(-7, 2), Zero}]

MatVals == {Zero, F(1)}

Matrices ==
    UNION {[1..r -> [1..c -> MatVals]] : r \in 0..MaxRows, c \in 0..MaxCols}

EigVals == <<Q(-1, 2), Zero, Q(1, 2), Q(1979, 1980), Q(2499, 2500), F(1), Q(3, 2)>>

\* ascending sequences of k eigenvalues
EigSeqs(k) ==
    {[i \in 1..k |-> EigVals[ix[i]]] :
        ix \in {f \in [1..k -> 1..Len(EigVals)] : \A i \in 1..(k - 1) : f[i] <= f[i + 1]}}

NoEig == [ok |-> FALSE, values |-> <<>>]

\* what eig.Factorize and eig.Values may answer to a call that got as far as reg:
\* nothing is asked when the call ended before; a failure or k ascending eigenvalues
\* for a finite matrix; a failure or NaN eigenvalues for a matrix with a non-finite
\* entry (k = 1, where the covariance divides by nRows - 1 = 0)
EigAnswers(reg) ==
    IF reg.kind # "ok" THEN {NoEig}
    ELSE LET k == Len(reg.cov)
         IN  IF \A i \in 1..k, j \in 1..k : IsFinite(reg.cov[i][j])
             THEN {NoEig} \cup {[ok |-> TRUE, values |-> v] : v \in EigSeqs(k)}
             ELSE {NoEig, [ok |-> TRUE, values |-> [i \in 1..k |-> NaN]]}

\* bars at the times 1..MaxTime, in any order and with repeated times
Bars == [Timestamp : 1..MaxTime, Close : MatVals]

BarSeries == UNION {[1..len -> Bars] : len \in 0..MaxBars}

\* one to MaxPredictors predictor series, each as long as the dependent one
PredictorLists == UNION {[1..k -> SeriesOfLen(2)] : k \in 1..MaxPredictors}

\* equal-length pairs for the regression kernel
RegressionPairs == {p \in SeriesPairs : Len(p[1]) = Len(p[2])} \cup LevelPairs

Idle == [fn |-> "none"]

Goroutines == {1, 2}

\* var sess, snsClient, sqsClient: nil at process start; how many of each were
\* made, and whether a request went out through a nil client
NoHandles == [sess |-> FALSE, snsClient |-> FALSE, sqsClient |-> FALSE,
              sessions |-> 0, snsClients |-> 0, sqsClients |-> 0, viaNil |-> FALSE]

\* a goroutine that is in no AWS helper
Outside == [pc |-> "idle", op |-> "none", phases |-> <<>>]

\* DataService before its first iteration
DataAtStart == [pc |-> "check", market |-> "none", tradeClient |-> FALSE,
                checks |-> 0, connects |-> 0, connectedOn |-> {}, published |-> 0,
                alive |-> TRUE, watching |-> FALSE]

\* ReversionService before its first iteration
ReversionAtStart == [pc |-> "subscribe", revision |-> 1, messages |-> <<>>,
                     batch |-> <<>>, polled |-> "none", polls |-> 0,
                     lastPoll |-> "none", deletes |-> <<>>]

ServicesAtStart ==
    /\ aws = NoHandles
    /\ thr = [g \in 1..AwsThreads |-> Outside]
    /\ ds = DataAtStart
    /\ rev = ReversionAtStart

\* a goroutine that is in no call
Resting == [pc |-> "idle", fn |-> "none", k |-> 0, seen |-> <<>>, input |-> <<>>,
            stores |-> 0, result |-> Idle]

Init ==
    /\ pc = "idle"
    /\ call = Idle
    /\ ret = Idle
    /\ heap = <<>>
    /\ gor = [g \in Goroutines |-> Resting]
    /\ ServicesAtStart

DoCalcHurstExponent ==
    /\ pc = "idle"
    /\ \E s \in AllSeries(MaxLen) :
          /\ call' = [fn |-> "CalcHurstExponent", series |-> s]
          /\ ret' = CalcHurstExponent(s)
    /\ pc' = "done"
    /\ UNCHANGED <<concVars, aws, thr, ds, rev>>

DoCalcMeanReversionHalfLife ==
    /\ pc = "idle"
    /\ \E s \in LevelSeries :
          /\ call' = [fn |-> "CalcMeanReversionHalfLife", series |-> s]
          /\ ret' = CalcMeanReversionHalfLife(s)
    /\ pc' = "done"
    /\ UNCHANGED <<concVars, aws, thr, ds, rev>>

DoExecCointegratedADFTest ==
    /\ pc = "idle"
    /\ \E p \in SeriesPairs \cup LevelPairs :
          \E reg \in {CointRegress(p[1], p[2])}, lag \in Lags, adf \in AdfAnswers :
             /\ call' = [fn |-> "ExecCointegratedADFTest", seriesX |-> p[1],
                         seriesY |-> p[2], lag |-> lag, adf |-> adf]
             /\ ret' = CointTest(reg, lag, adf)
    /\ pc' = "done"
    /\ UNCHANGED <<concVars, aws, thr, ds, rev>>

DoExecJohansenTest ==
    /\ pc = "idle"
    /\ \E m \in Matrices, lag \in -1..(MaxRows + 1) :
          \E reg \in {JohansenRegress(m, lag)} :
             \E eig \in EigAnswers(reg) :
                /\ call' = [fn |-> "ExecJohansenTest", series |-> m, lag |-> lag,
                            eig |-> eig]
                /\ ret' = JohansenTrace(reg, eig)
    /\ pc' = "done"
    /\ UNCHANGED <<concVars, aws, thr, ds, rev>>

DoCaclulateBollingerBands ==
    /\ pc = "idle"
    /\ \E s \in AllSeries(MaxWindow + 1), w \in -1..MaxWindow :
          /\ call' = [fn |-> "CaclulateBollingerBands", series |-> s, window |-> w]
          /\ ret' = CaclulateBollingerBands(s, w)
    /\ pc' = "done"
    /\ UNCHANGED <<concVars, aws, thr, ds, rev>>

DoCalcVariance ==
    /\ pc = "idle"
    /\ \E s \in AllSeries(MaxWindow) :
          /\ call' = [fn |-> "CalcVariance", series |-> s]
          /\ ret' = [value |-> CalcVariance(s)]
    /\ pc' = "done"
    /\ UNCHANGED <<concVars, aws, thr, ds, rev>>

DoCalcStandardDeviation ==
    /\ pc = "idle"
    /\ \E s \in AllSeries(MaxWindow) :
          /\ call' = [fn |-> "CalcStandardDeviation", series |-> s]
          /\ ret' = [value |-> CalcStandardDeviation(s)]
    /\ pc' = "done"
    /\ UNCHANGED <<concVars, aws, thr, ds, rev>>

DoSimpleLinearRegression ==
    /\ pc = "idle"
    /\ \E p \in RegressionPairs :
          /\ call' = [fn |-> "SimpleLinearRegression", x |-> p[1], y |-> p[2]]
          /\ ret' = [alpha |-> SimpleLinearRegression(p[1], p[2])[1],
                     beta |-> SimpleLinearRegression(p[1], p[2])[2]]
    /\ pc' = "done"
    /\ UNCHANGED <<concVars, aws, thr, ds, rev>>

DoMultipleLinearRegression ==
    /\ pc = "idle"
    /\ \E y \in SeriesOfLen(2), xs \in PredictorLists :
          /\ call' = [fn |-> "MultipleLinearRegression", seriesY |-> y, seriesX |-> xs]
          /\ ret' = MultipleLinearRegression(y, xs)
    /\ pc' = "done"
    /\ UNCHANGED <<concVars, aws, thr, ds, rev>>

DoNormalizeBarData ==
    /\ pc = "idle"
    /\ \E x \in BarSeries, y \in BarSeries :
          /\ call' = [fn |-> "NormalizeBarData", seriesX |-> x, seriesY |-> y]
          /\ ret' = NormalizeBarData(x, y)
    /\ pc' = "done"
    /\ UNCHANGED <<concVars, aws, thr, ds, rev>>

\* the caller takes the result; the helpers keep nothing between calls
Return ==
    /\ pc = "done"
    /\ pc' = "idle"
    /\ call' = Idle
    /\ ret' = Idle
    /\ UNCHANGED <<concVars, aws, thr, ds, rev>>

Next ==
    \/ DoCalcHurstExponent
    \/ DoCalcMeanReversionHalfLife
    \/ DoExecCointegratedADFTest
    \/ DoExecJohansenTest
    \/ DoCaclulateBollingerBands
    \/ DoCalcVariance
    \/ DoCalcStandardDeviation
    \/ DoSimpleLinearRegression
    \/ DoMultipleLinearRegression
    \/ DoNormalizeBarData
    \/ Return

Spec == Init /\ [][Next]_vars

(***************************************************************************)
(* Concurrent callers.  Goroutines call the estimators on one shared input *)
(* slice, heap, and are interleaved between the elements they process: a   *)
(* goroutine loads a cell, stores what it derives from it and goes on to   *)
(* the next cell; after the last cell it returns the estimator's value of  *)
(* the cells it has loaded.  The package has no package-level variable.    *)
(***************************************************************************)
Estimators == {"CalcHurstExponent", "CalcMeanReversionHalfLife",
               "ExecCointegratedADFTest", "ExecJohansenTest",
               "CaclulateBollingerBands", "NormalizeBarData"}

\* the shared cells as the bars and as the one-column matrix a caller passes
AsBars(cells) == Tup([i \in 1..Len(cells) |-> [Timestamp |-> i, Close |-> cells[i]]])

AsMatrix(cells) == Tup([i \in 1..Len(cells) |-> <<cells[i]>>])

\* the libraries are functions of what they are given: one fixed answer each
FixedAdf == [isStationary |-> FALSE, statistic |-> Zero]

FixedEig(reg) == CHOOSE e \in EigAnswers(reg) : e.ok \/ EigAnswers(reg) = {NoEig}

\* what the estimator fn returns for the cells it read
Apply(fn, cells) ==
    CASE fn = "CalcHurstExponent" -> CalcHurstExponent(cells)
      [] fn = "CalcMeanReversionHalfLife" -> CalcMeanReversionHalfLife(cells)
      [] fn = "ExecCointegratedADFTest" ->
            ExecCointegratedADFTest(cells, cells, 1, FixedAdf)
      [] fn = "ExecJohansenTest" ->
            LET reg == JohansenRegress(AsMatrix(cells), 1)
            IN  JohansenTrace(reg, FixedEig(reg))
      [] fn = "CaclulateBollingerBands" -> CaclulateBollingerBands(cells, 2)
      [] fn = "NormalizeBarData" -> NormalizeBarData(AsBars(cells), AsBars(cells))

\* the derived value written over the input cell it was derived from
Store_InPlace(cells, fn, k, v) == [cells EXCEPT ![k] = FSub(v, F(1))]

\* the shared cells after the store an estimator makes for cell k: the store goes
\* to a slice the call made itself (deviations, changes, residuals, differenced,
\* upperBand, seriesA), never to the input
Store(cells, fn, k, v) == cells

ConcInit ==
    /\ pc = "idle"
    /\ call = Idle
    /\ ret = Idle
    /\ heap \in [1..ConcLen -> MatVals]
    /\ gor = [g \in Goroutines |-> Resting]
    /\ ServicesAtStart

\* goroutine g calls an estimator with the shared slice
Go(g) ==
    /\ gor[g].pc = "idle"
    /\ \E fn \in Estimators :
          gor' = [gor EXCEPT ![g] = [pc |-> "run", fn |-> fn, k |-> 0, seen |-> <<>>,
                                     input |-> heap, stores |-> 0, result |-> Idle]]
    /\ UNCHANGED <<heap, callVars, aws, thr, ds, rev>>

\* g processes the next cell: the load and the store of what is derived from it
Load(g) ==
    /\ gor[g].pc = "run"
    /\ gor[g].k < Len(heap)
    /\ gor' = [gor EXCEPT ![g].k = @ + 1,
                          ![g].seen = Append(@, heap[gor[g].k + 1]),
                          ![g].stores = @ + 1]
    /\ heap' = Store(heap, gor[g].fn, gor[g].k + 1, heap[gor[g].k + 1])
    /\ UNCHANGED <<callVars, aws, thr, ds, rev>>

\* g has processed every cell and returns
Finish(g) ==
    /\ gor[g].pc = "run"
    /\ gor[g].k = Len(heap)
    /\ gor' = [gor EXCEPT ![g].pc = "done",
                          ![g].result = Apply(gor[g].fn, gor[g].seen)]
    /\ UNCHANGED <<heap, callVars, aws, thr, ds, rev>>

\* the caller of g takes the result
Collect(g) ==
    /\ gor[g].pc = "done"
    /\ gor' = [gor EXCEPT ![g] = Resting]
    /\ UNCHANGED <<heap, callVars, aws, thr, ds, rev>>

ConcNext == \E g \in Goroutines : Go(g) \/ Load(g) \/ Finish(g) \/ Collect(g)

ConcSpec == ConcInit /\ [][ConcNext]_vars

(***************************************************************************)
(* The AWS helpers.  sess, snsClient and sqsClient are package-level       *)
(* pointers filled on first use, with no lock.  A handle is TRUE once it   *)
(* is not nil.  session.NewSession may fail; sns.New and sqs.New do not.   *)
(***************************************************************************)
\* snsClient = sns.New(sess), sqsClient = sqs.New(sess)
MakeClient(a, kind) ==
    IF kind = "sns" THEN [a EXCEPT !.snsClient = TRUE, !.snsClients = @ + 1]
    ELSE [a EXCEPT !.sqsClient = TRUE, !.sqsClients = @ + 1]

\* snsClient == nil, sqsClient == nil
ClientIsNil(a, kind) == IF kind = "sns" THEN ~a.snsClient ELSE ~a.sqsClient

\* a request through the package-level client: snsClient.Publish, snsClient.Subscribe,
\* sqsClient.ReceiveMessage, sqsClient.DeleteMessage, sqsClient.SetQueueAttributes
Send(a, kind) == [a EXCEPT !.viaNil = @ \/ ClientIsNil(a, kind)]

\* the helpers run without interruption; ok: session.NewSession succeeds
createOrReturnAWSSession(a, ok) ==
    IF a.sess THEN [a |-> a, err |-> FALSE]
    ELSE IF ok THEN [a |-> [a EXCEPT !.sess = TRUE, !.sessions = @ + 1], err |-> FALSE]
    ELSE [a |-> a, err |-> TRUE]

createOrReturnSNSClient(a, ok) ==
    IF ~ClientIsNil(a, "sns") THEN [a |-> a, err |-> FALSE]
    ELSE LET s == createOrReturnAWSSession(a, ok)
         IN  IF s.err THEN s ELSE [a |-> MakeClient(s.a, "sns"), err |-> FALSE]

createOrReturnSQSClient(a, ok) ==
    IF ~ClientIsNil(a, "sqs") THEN [a |-> a, err |-> FALSE]
    ELSE LET s == createOrReturnAWSSession(a, ok)
         IN  IF s.err THEN s ELSE [a |-> MakeClient(s.a, "sqs"), err |-> FALSE]

\* sent: the request went out; err: the call returns an error
PublishSNSMessage(a, ok, sendOk) ==
    LET c == createOrReturnSNSClient(a, ok)
    IN  IF c.err THEN [a |-> c.a, err |-> TRUE, sent |-> FALSE]
        ELSE [a |-> Send(c.a, "sns"), err |-> ~sendOk, sent |-> TRUE]

PollSQSMessage(a, ok, sendOk) ==
    LET c == createOrReturnSQSClient(a, ok)
    IN  IF c.err THEN [a |-> c.a, err |-> TRUE, sent |-> FALSE]
        ELSE [a |-> Send(c.a, "sqs"), err |-> ~sendOk, sent |-> TRUE]

DeleteSQSMessage(a, ok, sendOk) ==
    LET c == createOrReturnSQSClient(a, ok)
    IN  IF c.err THEN [a |-> c.a, err |-> TRUE, sent |-> FALSE]
        ELSE [a |-> Send(c.a, "sqs"), err |-> ~sendOk, sent |-> TRUE]

\* both clients, then SetQueueAttributes and, if that succeeded, Subscribe
SubscribeSQSToSNS(a, ok, policyOk, subscribeOk) ==
    LET q == createOrReturnSQSClient(a, ok)
        n == createOrReturnSNSClient(q.a, ok)
    IN  IF q.err THEN [a |-> q.a, err |-> TRUE]
        ELSE IF n.err THEN [a |-> n.a, err |-> TRUE]
        ELSE IF ~policyOk THEN [a |-> Send(n.a, "sqs"), err |-> TRUE]
        ELSE [a |-> Send(Send(n.a, "sqs"), "sns"), err |-> ~subscribeOk]

(***************************************************************************)
(* Goroutines in the AWS helpers, interleaved between the reads and the    *)
(* writes of the package-level pointers.                                   *)
(***************************************************************************)
\* what a helper does, in order: make sure of a client, send through a client
OpPhases(op) ==
    CASE op = "PublishSNSMessage" -> <<"ensure-sns", "send-sns">>
      [] op = "PollSQSMessage" -> <<"ensure-sqs", "send-sqs">>
      [] op = "DeleteSQSMessage" -> <<"ensure-sqs", "send-sqs">>
      [] op = "SubscribeSQSToSNS" -> <<"ensure-sqs", "ensure-sns", "send-sqs", "send-sns">>

KindOf(phase) == IF phase \in {"ensure-sns", "send-sns"} THEN "sns" ELSE "sqs"

\* the goroutine at the start of the phases that are left; outside when none is
Proceed(op, phases) ==
    IF phases = <<>> THEN Outside
    ELSE [pc |-> IF Head(phases) \in {"ensure-sns", "ensure-sqs"}
                 THEN "checkClient" ELSE "request",
          op |-> op, phases |-> phases]

\* a stream handler or a service calls one of the helpers
AwsCall(g) ==
    /\ thr[g].pc = "idle"
    /\ \E op \in {"PublishSNSMessage", "PollSQSMessage", "DeleteSQSMessage",
                  "SubscribeSQSToSNS"} : thr' = [thr EXCEPT ![g] = Proceed(op, OpPhases(op))]
    /\ UNCHANGED <<aws, ds, rev, callVars, concVars>>

\* if snsClient == nil / if sqsClient == nil
CheckClient(g) ==
    /\ thr[g].pc = "checkClient"
    /\ thr' = [thr EXCEPT ![g] =
                  IF ClientIsNil(aws, KindOf(Head(thr[g].phases)))
                  THEN [@ EXCEPT !.pc = "checkSession"]
                  ELSE Proceed(thr[g].op, Tail(thr[g].phases))]
    /\ UNCHANGED <<aws, ds, rev, callVars, concVars>>

\* if sess == nil
CheckSession(g) ==
    /\ thr[g].pc = "checkSession"
    /\ thr' = [thr EXCEPT ![g].pc = IF aws.sess THEN "newClient" ELSE "newSession"]
    /\ UNCHANGED <<aws, ds, rev, callVars, concVars>>

\* session.NewSession and sess = newSession, or the error handed to the caller
NewSession(g) ==
    /\ thr[g].pc = "newSession"
    /\ \E ok \in BOOLEAN :
          IF ok
          THEN /\ aws' = [aws EXCEPT !.sess = TRUE, !.sessions = @ + 1]
               /\ thr' = [thr EXCEPT ![g].pc = "newClient"]
          ELSE /\ aws' = aws
               /\ thr' = [thr EXCEPT ![g] = Outside]
    /\ UNCHANGED <<ds, rev, callVars, concVars>>

\* snsClient = sns.New(sess) / sqsClient = sqs.New(sess)
NewClient(g) ==
    /\ thr[g].pc = "newClient"
    /\ aws' = MakeClient(aws, KindOf(Head(thr[g].phases)))
    /\ thr' = [thr EXCEPT ![g] = Proceed(thr[g].op, Tail(thr[g].phases))]
    /\ UNCHANGED <<ds, rev, callVars, concVars>>

\* the request through the package-level client; on an error the helper returns
SendRequest(g) ==
    /\ thr[g].pc = "request"
    /\ aws' = Send(aws, KindOf(Head(thr[g].phases)))
    /\ \E ok \in BOOLEAN :
          thr' = [thr EXCEPT ![g] =
                    IF ok THEN Proceed(thr[g].op, Tail(thr[g].phases)) ELSE Outside]
    /\ UNCHANGED <<ds, rev, callVars, concVars>>

AwsNext ==
    \E g \in 1..AwsThreads :
        \/ AwsCall(g)
        \/ CheckClient(g)
        \/ CheckSession(g)
        \/ NewSession(g)
        \/ NewClient(g)
        \/ SendRequest(g)

AwsSpec == Init /\ [][AwsNext]_vars

(***************************************************************************)
(* DataService.  ds.pc is the position of the loop; alive turns FALSE when *)
(* log.Fatal or os.Exit ends the process; watching is TRUE once a          *)
(* goroutine waits on streamClient.Terminated().                           *)
(***************************************************************************)
\* createOrReturnTradeClient: alpaca.NewClient on first use
createOrReturnTradeClient(d) == [d EXCEPT !.tradeClient = TRUE]

\* tradeClient.GetClock failed, or clock.IsOpen, or neither
IsMarketOpen(clock) ==
    IF clock = "err" THEN [isMarketOpen |-> FALSE, err |-> TRUE]
    ELSE IF clock = "open" THEN [isMarketOpen |-> TRUE, err |-> FALSE]
    ELSE [isMarketOpen |-> FALSE, err |-> FALSE]

\* the two early continues of the loop, and the fall through to the connection
AfterCheck(r) ==
    IF r.err THEN "sleepErr"
    ELSE IF ~r.isMarketOpen THEN "sleepClosed"
    ELSE "connect"

\* isMarketOpen, err := helpers.IsMarketOpen() and the branch on its result
DsCheck ==
    /\ ds.alive
    /\ ds.pc = "check"
    /\ ds.checks < MaxChecks
    /\ \E clock \in {"err", "closed", "open"} :
          \E r \in {IsMarketOpen(clock)} :
             ds' = [createOrReturnTradeClient(ds) EXCEPT
                      !.market = clock,
                      !.checks = @ + 1,
                      !.pc = AfterCheck(r)]
    /\ UNCHANGED <<aws, thr, rev, callVars, concVars>>

\* time.Sleep returns and the loop starts its next iteration
DsWake ==
    /\ ds.alive
    /\ ds.pc \in {"sleepErr", "sleepClosed", "retry"}
    /\ ds' = [ds EXCEPT !.pc = "check", !.market = "none"]
    /\ UNCHANGED <<aws, thr, rev, callVars, concVars>>

\* streamClient.Connect(ctx): log.Fatal on an error, else the goroutine on Terminated()
DsConnect ==
    /\ ds.alive
    /\ ds.pc = "connect"
    /\ \E ok \in BOOLEAN :
          ds' = [ds EXCEPT !.connects = @ + 1,
                           !.connectedOn = @ \cup {ds.market},
                           !.pc = IF ok THEN "streaming" ELSE @,
                           !.watching = @ \/ ok,
                           !.alive = ok]
    /\ UNCHANGED <<aws, thr, rev, callVars, concVars>>

\* tradeHandler, quoteHandler, barHandler: marshal and PublishSNSMessage
DsHandler ==
    /\ ds.alive
    /\ ds.pc = "streaming"
    /\ ds.published < MaxPublished
    /\ \E ok \in BOOLEAN, sendOk \in BOOLEAN :
          aws' = PublishSNSMessage(aws, ok, sendOk).a
    /\ ds' = [ds EXCEPT !.published = @ + 1]
    /\ UNCHANGED <<thr, rev, callVars, concVars>>

\* keyboard interrupt: cancel(), <-ctx.Done() returns, the loop sleeps before its retry
DsInterrupt ==
    /\ ds.alive
    /\ ds.pc = "streaming"
    /\ ds' = [ds EXCEPT !.pc = "retry"]
    /\ UNCHANGED <<aws, thr, rev, callVars, concVars>>

\* the goroutine receives from streamClient.Terminated() and calls os.Exit(0)
DsTerminated ==
    /\ ds.alive
    /\ ds.watching
    /\ ds' = [ds EXCEPT !.alive = FALSE]
    /\ UNCHANGED <<aws, thr, rev, callVars, concVars>>

DataNext ==
    \/ DsCheck
    \/ DsWake
    \/ DsConnect
    \/ DsHandler
    \/ DsInterrupt
    \/ DsTerminated

DataSpec == Init /\ [][DataNext]_vars

(***************************************************************************)
(* ReversionService.  The file holds the function twice: revision 1 logs   *)
(* the error of the delete, revision 2 ignores it and reads the queue of   *)
(* the delete from another environment variable.  A queue is named by the  *)
(* environment variable its URL is read from.                              *)
(***************************************************************************)
\* the queue handed to helpers.DeleteSQSMessage
DeleteQueue(revision) ==
    IF revision = 1 THEN "REVERSION_SQS_URL" ELSE "REVERION_SQS_URL"

\* the messages of the poll numbered poll: at most MaxNumberOfMessages of them
Received(poll, n) == Tup([i \in 1..n |-> (poll - 1) * MaxNumberOfMessages + i])

ReversionInit ==
    /\ pc = "idle"
    /\ call = Idle
    /\ ret = Idle
    /\ heap = <<>>
    /\ gor = [g \in Goroutines |-> Resting]
    /\ aws = NoHandles
    /\ thr = [g \in 1..AwsThreads |-> Outside]
    /\ ds = DataAtStart
    /\ rev \in {[ReversionAtStart EXCEPT !.revision = r] : r \in {1, 2}}

\* helpers.SubscribeSQSToSNS at the top of the loop; an error returns from the service
RvSubscribe ==
    /\ rev.pc = "subscribe"
    /\ rev.polls < MaxPolls
    /\ \E ok \in BOOLEAN, policyOk \in BOOLEAN, subscribeOk \in BOOLEAN :
          \E r \in {SubscribeSQSToSNS(aws, ok, policyOk, subscribeOk)} :
             /\ aws' = r.a
             /\ rev' = [rev EXCEPT !.pc = IF r.err THEN "returned" ELSE "poll"]
    /\ UNCHANGED <<thr, ds, callVars, concVars>>

\* helpers.PollSQSMessage; an error is logged and leaves messages nil
RvPoll ==
    /\ rev.pc = "poll"
    /\ \E ok \in BOOLEAN, sendOk \in BOOLEAN, n \in 0..MaxNumberOfMessages :
          \E r \in {PollSQSMessage(aws, ok, sendOk)} :
             \E got \in {IF r.err THEN <<>> ELSE Received(rev.polls + 1, n)} :
                /\ aws' = r.a
                /\ rev' = [rev EXCEPT !.polls = @ + 1,
                                      !.polled = "REVERSION_SQS_URL",
                                      !.lastPoll = IF r.err THEN "err" ELSE "ok",
                                      !.batch = got,
                                      !.messages = got,
                                      !.deletes = <<>>,
                                      !.pc = IF got = <<>> THEN "subscribe" ELSE "delete"]
    /\ UNCHANGED <<thr, ds, callVars, concVars>>

\* one pass of the range loop: helpers.DeleteSQSMessage for the next message
RvDelete ==
    /\ rev.pc = "delete"
    /\ \E ok \in BOOLEAN, sendOk \in BOOLEAN :
          \E r \in {DeleteSQSMessage(aws, ok, sendOk)} :
             /\ aws' = r.a
             /\ rev' = [rev EXCEPT
                          !.deletes = IF r.sent
                                      THEN Append(@, [message |-> Head(rev.messages),
                                                      queue |-> DeleteQueue(rev.revision)])
                                      ELSE @,
                          !.messages = Tail(@),
                          !.pc = IF Tail(rev.messages) = <<>> THEN "subscribe" ELSE "delete"]
    /\ UNCHANGED <<thr, ds, callVars, concVars>>

ReversionNext ==
    \/ RvSubscribe
    \/ RvPoll
    \/ RvDelete

ReversionSpec == ReversionInit /\ [][ReversionNext]_vars

(***************************************************************************)
(* Properties.                                                             *)
(***************************************************************************)
Returned(fn) == pc = "done" /\ call.fn = fn

\* C1: CalcHurstExponent returns the slope of the least-squares line through the
\* collected (log n, log mean R/S) pairs whenever there are at least two pairs.
C1_HurstReturnsSlope ==
    (Returned("CalcHurstExponent") /\ Len(ret.logN) >= 2)
        => ret.value = SimpleLinearRegression(ret.logN, ret.logRS)[2]

\* C2: for a series of length 0 or 1 both CalcHurstExponent and
\* CalcMeanReversionHalfLife return the "at least 2" error with the value 0 and
\* compute nothing (no window visited, no pair collected, no regression run).
C2_ShortSeriesFail ==
    /\ (Returned("CalcHurstExponent") /\ Len(call.series) < 2)
          => /\ ret.err = ErrTooShort
             /\ ret.value = Zero
             /\ ~ret.regressed
             /\ ret.windows = {}
             /\ ret.logN = <<>>
    /\ (Returned("CalcMeanReversionHalfLife") /\ Len(call.series) < 2)
          => /\ ret.err = ErrTooShort
             /\ ret.value = Zero
             /\ ~ret.regressed

C2_Witness ==
    /\ Returned("CalcHurstExponent")
    /\ Len(call.series) = 1
    /\ ret.err = ErrTooShort

\* C3: for every series of length at least 2 CalcHurstExponent returns a defined
\* (finite) exponent and no error; it fails only for length < 2.
C3_HurstDefinedFromLength2 ==
    Returned("CalcHurstExponent")
        => /\ (ret.err # "") <=> (Len(call.series) < 2)
           /\ Len(call.series) >= 2 => IsFinite(ret.value)

\* the slope of regressing the increments series[i+1] - series[i] on the lagged
\* levels series[i]
IncrementSlope(series) ==
    SimpleLinearRegression(SubSeq(series, 1, Len(series) - 1),
        [i \in 1..(Len(series) - 1) |-> FSub(series[i + 1], series[i])])[2]

\* C4: for a series of length >= 2 CalcMeanReversionHalfLife fails with the
\* not-mean-reverting error exactly when the slope beta satisfies beta >= 0
\* (beta = 0 included) and succeeds for every beta < 0.
C4_NotMeanRevertingIffSlopeNonNegative ==
    (Returned("CalcMeanReversionHalfLife") /\ Len(call.series) >= 2)
        => LET beta == IncrementSlope(call.series)
           IN  /\ (ret.err = ErrNotMeanReverting) <=> FGe(beta, Zero)
               /\ FLt(beta, Zero) => ret.err = ""
               /\ ret.err \in {"", ErrNotMeanReverting}

C4_Witness ==
    /\ Returned("CalcMeanReversionHalfLife")
    /\ Len(call.series) >= 2
    /\ IncrementSlope(call.series) = Zero
    /\ ret.err = ErrNotMeanReverting

\* C5 as stated: every residual is y[i] - beta*x[i], beta the slope of regressing y
\* on x, the intercept not subtracted.
C5_ResidualOmitsIntercept ==
    (Returned("ExecCointegratedADFTest") /\ ret.kind = "ok")
        => LET beta == SimpleLinearRegression(call.seriesX, call.seriesY)[2]
           IN  \A i \in 1..Len(call.seriesX) :
                  ret.residuals[i] = FSub(call.seriesY[i], FMul(beta, call.seriesX[i]))

\* C5 amended: every residual is y[i] - (alpha + beta*x[i]), alpha and beta the
\* intercept and the slope of regressing y on x.
C5_ResidualOfFittedLine ==
    (Returned("ExecCointegratedADFTest") /\ ret.kind = "ok")
        => LET reg == SimpleLinearRegression(call.seriesX, call.seriesY)
           IN  \A i \in 1..Len(call.seriesX) :
                  ret.residuals[i] =
                     FSub(call.seriesY[i], FAdd(reg[1], FMul(reg[2], call.seriesX[i])))

C5_Witness ==
    /\ Returned("ExecCointegratedADFTest")
    /\ ret.kind = "ok"
    /\ Len(call.seriesX) >= 2
    /\ LET reg == SimpleLinearRegression(call.seriesX, call.seriesY)
       IN  IsFinite(reg[2]) /\ IsFinite(reg[1]) /\ reg[1] # Zero /\ reg[2] # Zero

\* C6: for equal-length inputs ExecCointegratedADFTest asks the ADF routine exactly
\* once, about the residual series and with the caller's lag, returns its verdict as
\* isCointegrated and its statistic unchanged, returns the slope of regressing y on
\* x as the hedge ratio, and returns as many residuals as the inputs have values.
C6_CointegratedResult ==
    (Returned("ExecCointegratedADFTest") /\ Len(call.seriesX) = Len(call.seriesY))
        => /\ ret.kind = "ok"
           /\ Len(ret.adfCalls) = 1
           /\ ret.adfCalls[1].series = ret.residuals
           /\ ret.adfCalls[1].lag = call.lag
           /\ ret.isCointegrated = call.adf.isStationary
           /\ ret.testStatistic = call.adf.statistic
           /\ ret.ratio = SimpleLinearRegression(call.seriesX, call.seriesY)[2]
           /\ Len(ret.residuals) = Len(call.seriesX)

C6_Witness ==
    /\ Returned("ExecCointegratedADFTest")
    /\ ret.kind = "ok"
    /\ call.lag = 2
    /\ ret.isCointegrated
    /\ ret.testStatistic = Q(-7, 2)
    /\ Len(ret.residuals) = 3
    /\ IsFinite(ret.ratio)
    /\ ret.ratio # SimpleLinearRegression(call.seriesX, call.seriesY)[1]

\* C7: for a non-empty matrix of k >= 2 series ExecJohansenTest returns to its
\* caller for every lag: a failure for lag <= 0 or lag >= numRows, a verdict or a
\* failure (never a crash) for 1 <= lag < numRows.
C7_JohansenAlwaysReturns ==
    (Returned("ExecJohansenTest") /\ NumRows(call.series) >= 1 /\ NumCols(call.series) >= 2)
        => /\ ret.kind # "panic"
           /\ (call.lag <= 0 \/ call.lag >= NumRows(call.series)) => ret.kind = "err"

\* C8: ExecJohansenTest reports isCointegrated exactly when the returned trace
\* statistic is strictly greater than 15.41, whatever the number of series; a
\* statistic of 15.41 is not cointegrated and a failure is never cointegrated.
C8_VerdictIffAboveCritical ==
    (Returned("ExecJohansenTest") /\ ret.kind # "panic")
        => /\ ret.isCointegrated <=> FGt(ret.testStatistic, Q(1541, 100))
           /\ ret.kind = "err" => ~ret.isCointegrated

C8_Witness ==
    /\ Returned("ExecJohansenTest")
    /\ ret.kind = "ok"
    /\ ret.testStatistic = Q(1541, 100)
    /\ ~ret.isCointegrated

\* C9: ExecJohansenTest returns the empty-series failure, having built no matrix,
\* when the input has no rows or its first row has no columns.
C9_EmptyInputFails ==
    (Returned("ExecJohansenTest")
        /\ (Len(call.series) = 0 \/ Len(call.series[1]) = 0))
        => /\ ret.kind = "err"
           /\ ret.err = ErrEmpty
           /\ ~ret.built
           /\ ~ret.isCointegrated
           /\ ret.testStatistic = Zero

C9_Witness ==
    /\ Returned("ExecJohansenTest")
    /\ Len(call.series) >= 2
    /\ Len(call.series[1]) = 0
    /\ call.lag = 1
    /\ ret.err = ErrEmpty

\* C10: for a constant series (every value c) and every window w with
\* 1 <= w <= length, CaclulateBollingerBands returns upper[i] = lower[i] = c at
\* every index i >= w.
C10_ConstantSeriesBands ==
    (Returned("CaclulateBollingerBands")
        /\ call.window >= 1
        /\ call.window <= Len(call.series)
        /\ \A i \in 1..Len(call.series) : call.series[i] = call.series[1])
        => /\ ret.kind = "ok"
           /\ \A i \in call.window..(Len(call.series) - 1) :
                 /\ FEq(ret.upper[i + 1], call.series[1])
                 /\ FEq(ret.lower[i + 1], call.series[1])

\* C11: CaclulateBollingerBands fails with the insufficient-data error, both bands
\* nil, exactly when the series is shorter than the window, and succeeds when the
\* series is exactly as long as the window.
C11_InsufficientDataIffShorterThanWindow ==
    Returned("CaclulateBollingerBands")
        => /\ (ret.kind = "err") <=> (Len(call.series) < call.window)
           /\ ret.kind = "err"
                 => ret.err = ErrWindow /\ ret.upper = <<>> /\ ret.lower = <<>>
           /\ Len(call.series) = call.window => ret.kind = "ok" /\ ret.err = ""

C11_Witness ==
    /\ Returned("CaclulateBollingerBands")
    /\ call.window >= 1
    /\ Len(call.series) = call.window
    /\ ret.kind = "ok"

\* C12: on success both bands have exactly the input's length and every index
\* below the window is left unset: never assigned, still the zero make() put there.
C12_BandsAlignedAndWarmupUnset ==
    (Returned("CaclulateBollingerBands") /\ ret.kind = "ok")
        => /\ Len(ret.upper) = Len(call.series)
           /\ Len(ret.lower) = Len(call.series)
           /\ \A i \in 0..(Len(call.series) - 1) :
                 i < call.window
                    => /\ i \notin ret.assigned
                       /\ ret.upper[i + 1] = Zero
                       /\ ret.lower[i + 1] = Zero

C12_Witness ==
    /\ Returned("CaclulateBollingerBands")
    /\ ret.kind = "ok"
    /\ call.window >= 2
    /\ Len(call.series) > call.window
    /\ ret.assigned # {}
    /\ ret.upper[Len(call.series)] # Zero

\* the population variance: the sum of squared deviations divided by n
PopulationVariance(series) ==
    LET dev == Deviations(series, CalcMean(series))
    IN  FDiv(Sum([i \in 1..Len(series) |-> FMul(dev[i], dev[i])]), F(Len(series)))

\* C13: CalcVariance is the population variance (divisor n, not n - 1) and
\* CalcStandardDeviation its square root, so a series of length 1 has variance 0.
C13_PopulationVarianceConvention ==
    /\ (Returned("CalcVariance") /\ Len(call.series) >= 1)
          => ret.value = PopulationVariance(call.series)
    /\ (Returned("CalcStandardDeviation") /\ Len(call.series) >= 1)
          => ret.value = Sqrt(PopulationVariance(call.series))

\* the timestamps of a bar sequence
Timestamps(bars) == {bars[i].Timestamp : i \in 1..Len(bars)}

\* C14: NormalizeBarData returns two sequences of equal length whose bars agree
\* on the timestamp at every index; the timestamps of the outputs are exactly the
\* timestamps present in both inputs.
C14_NormalizedToCommonTimestamps ==
    Returned("NormalizeBarData")
        => /\ Len(ret.seriesA) = Len(ret.seriesB)
           /\ \A i \in 1..Len(ret.seriesA) :
                 ret.seriesA[i].Timestamp = ret.seriesB[i].Timestamp
           /\ Timestamps(ret.seriesA) \cup Timestamps(ret.seriesB)
                 \subseteq Timestamps(call.seriesX) \cap Timestamps(call.seriesY)
           /\ Timestamps(call.seriesX) \cap Timestamps(call.seriesY)
                 \subseteq Timestamps(ret.seriesA) \cap Timestamps(ret.seriesB)

C14_Witness ==
    /\ Returned("NormalizeBarData")
    /\ Len(ret.seriesA) = 1
    /\ Len(call.seriesX) = 2
    /\ Len(call.seriesY) = 2
    /\ ret.seriesA[1].Close # ret.seriesB[1].Close

\* C15: MultipleLinearRegression returns fitted coefficients and fails with the
\* rank-deficient error when the same predictor series is passed twice.
C15_MultipleRegressionFitsOrFails ==
    Returned("MultipleLinearRegression")
        => /\ (\E i, j \in 1..Len(call.seriesX) :
                  i # j /\ call.seriesX[i] = call.seriesX[j]) => ret.err # ""
           /\ (Len(call.seriesX) = 1 /\ call.seriesX[1] = call.seriesY
                  /\ call.seriesY[1] # call.seriesY[2])
                 => ret.values # <<Zero, Zero>>

\* the sum of squared residuals of the line y = a + b*x
SumSquaredResiduals(x, y, a, b) ==
    Sum([i \in 1..Len(x) |->
            FMul(FSub(y[i], FAdd(a, FMul(b, x[i]))), FSub(y[i], FAdd(a, FMul(b, x[i]))))])

\* the candidate intercepts and slopes of the grid search
Grid == {Q(k, 2) : k \in -2..2}

\* C16: for equal-length x and y, length >= 2, x not constant, the pair
\* (intercept, slope) that SimpleLinearRegression returns has a sum of squared
\* residuals no larger than that of any other pair: the residuals are orthogonal
\* to the constant and to x, and no pair of the grid does better.
C16_LeastSquaresLine ==
    (Returned("SimpleLinearRegression") /\ Len(call.x) >= 2
        /\ \E i \in 1..Len(call.x) : call.x[i] # call.x[1])
        => LET r == [i \in 1..Len(call.x) |->
                       FSub(call.y[i], FAdd(ret.alpha, FMul(ret.beta, call.x[i])))]
               best == SumSquaredResiduals(call.x, call.y, ret.alpha, ret.beta)
           IN  /\ Sum(r) = Zero
               /\ Sum([i \in 1..Len(call.x) |-> FMul(r[i], call.x[i])]) = Zero
               /\ \A a \in Grid, b \in Grid :
                     FLe(best, SumSquaredResiduals(call.x, call.y, a, b))

C16_Witness ==
    /\ Returned("SimpleLinearRegression")
    /\ Len(call.x) = 3
    /\ \E i \in 1..Len(call.x) : call.x[i] # call.x[1]
    /\ ret.alpha # ret.beta
    /\ FGt(SumSquaredResiduals(call.x, call.y, ret.alpha, ret.beta), Zero)

\* the slope of regressing y on x
SlopeOn(x, y) == LinearRegression(x, y)[2]

C19_HurstWindowPartition ==
    (Returned("CalcHurstExponent") /\ ret.err = "")
        => LET L == Len(call.series)
           IN  /\ ret.windows =
                     {<<n, j * n, j * n + n>> : n \in 2..(L \div 2), j \in 0..L} \cap
                     {w \in (2..L) \X (0..L) \X (0..L) : w[2] < (L \div w[1]) * w[1]}
               /\ Len(ret.rsValues) = Cardinality(2..(L \div 2))
               /\ \A w \in ret.windows :
                     /\ w[3] - w[2] = w[1]
                     /\ w[3] <= L - (L % w[1])
               /\ \A v, w \in ret.windows :
                     (v[1] = w[1] /\ v # w) => (v[3] <= w[2] \/ w[3] <= v[2])
               /\ \A n \in 2..(L \div 2) :
                     Cardinality({w \in ret.windows : w[1] = n}) = L \div n

C19_Witness ==
    /\ Returned("CalcHurstExponent")
    /\ Len(call.series) = 5
    /\ ret.windows = {<<2, 0, 2>>, <<2, 2, 4>>}

\* the windows of size n with two different values: a standard deviation above zero
VaryingWindows(series, n) ==
    {j \in 0..((Len(series) \div n) - 1) :
        \E a, b \in (j * n + 1)..(j * n + n) : series[a] # series[b]}

\* C20: CalcHurstExponent never divides by a zero standard deviation: a window
\* with standard deviation zero adds nothing to the rescaled ranges of its size,
\* and a size all of whose windows have standard deviation zero adds no
\* (log n, log R/S) pair.
C20_ZeroDeviationWindowsSkipped ==
    (Returned("CalcHurstExponent") /\ ret.err = "")
        => /\ \A k \in 1..Len(ret.rsValues) :
                 /\ Len(ret.rsValues[k]) = Cardinality(VaryingWindows(call.series, k + 1))
                 /\ \A i \in 1..Len(ret.rsValues[k]) : IsFinite(ret.rsValues[k][i])
           /\ Len(ret.logN) =
                 Cardinality({k \in 1..Len(ret.rsValues) :
                                 VaryingWindows(call.series, k + 1) # {}})
           /\ Len(ret.logRS) = Len(ret.logN)
           /\ \A i \in 1..Len(ret.logRS) : IsFinite(ret.logRS[i])

C20_Witness ==
    /\ Returned("CalcHurstExponent")
    /\ ret.err = ""
    /\ \E k \in 1..Len(ret.rsValues) : ret.rsValues[k] = <<>>
    /\ \E k \in 1..Len(ret.rsValues) :
          /\ ret.rsValues[k] # <<>>
          /\ Len(ret.rsValues[k]) < Len(call.series) \div (k + 1)
    /\ Len(ret.logN) < Len(ret.rsValues)

\* C17: no estimator writes to its input series (nor to a package-level variable),
\* so under every interleaving of concurrent calls on one shared slice the slice
\* stays what it was when each call began and each call returns what it returns
\* when it runs alone on that slice.
C17_ConcurrentCallsIndependent ==
    \A g \in Goroutines :
        /\ gor[g].pc # "idle" => heap = gor[g].input
        /\ gor[g].pc = "done" => gor[g].result = Apply(gor[g].fn, gor[g].input)

C17_Witness ==
    /\ gor[1].pc = "done"
    /\ gor[1].fn = "CalcMeanReversionHalfLife"
    /\ gor[1].stores = ConcLen
    /\ gor[2].pc = "run"
    /\ gor[2].fn = "CaclulateBollingerBands"
    /\ gor[2].k = 2
    /\ \E i \in 1..Len(heap) : heap[i] # heap[1]

\* C21: for a series of length n >= 2 CalcMeanReversionHalfLife regresses the n - 1
\* increments series[i+1] - series[i] on the n - 1 levels series[i], takes beta as
\* the slope of that regression and on success returns ln(2) / theta, theta = -beta.
C21_HalfLifeFromIncrementSlope ==
    (Returned("CalcMeanReversionHalfLife") /\ Len(call.series) >= 2)
        => /\ ret.regressed
           /\ ret.beta = IncrementSlope(call.series)
           /\ ret.err = "" => ret.value = FDiv(Log(F(2)), FNeg(IncrementSlope(call.series)))

C21_Witness ==
    /\ Returned("CalcMeanReversionHalfLife")
    /\ Len(call.series) >= 3
    /\ ret.err = ""
    /\ IsFinite(ret.value)
    /\ FGt(ret.value, Zero)
    /\ LinearRegression(SubSeq(call.series, 1, Len(call.series) - 1),
                        Changes(call.series))[1] # ret.beta

\* a - b, entry by entry
MatSub(a, b) ==
    [i \in 1..NumRows(a) |-> [j \in 1..NumCols(a) |-> FSub(a[i][j], b[i][j])]]

\* differenced - lagged * coefficients for the call's series and lag
RegressionResidual(series, lag) ==
    LET lagged      == Lagged(series, lag)
        differenced == Differenced(series)
    IN  MatSub(differenced, MatMul(lagged, QRSolve(lagged, differenced).x))

\* C22: the matrix whose covariance ExecJohansenTest decomposes is the residual
\* differenced - lagged * coefficients of the least-squares regression, one row per
\* observation and one column per series, and the covariance is the k x k matrix of
\* column products summed over those rows and divided by (rows - 1).
C22_CovarianceOfRegressionResidual ==
    (Returned("ExecJohansenTest") /\ ret.cov # <<>>)
        => LET res == RegressionResidual(call.series, call.lag)
           IN  /\ NumRows(ret.residuals) = NumRows(call.series) - call.lag
               /\ NumCols(ret.residuals) = NumCols(call.series)
               /\ \A i \in 1..NumRows(res), j \in 1..NumCols(res) :
                     ret.residuals[i][j] = res[i][j]
               /\ ret.cov = computeCovarianceMatrix(ret.residuals)

\* the sum of log(1 - lambda) over the strictly positive eigenvalues 1..i
RECURSIVE PositiveLogSum(_, _)
PositiveLogSum(values, i) ==
    IF i = 0 THEN Zero
    ELSE FAdd(PositiveLogSum(values, i - 1),
              IF values[i][1] > 0 THEN Log(FSub(F(1), values[i])) ELSE Zero)

\* C23: the trace statistic ExecJohansenTest returns is -(sum of log(1 - lambda))
\* over exactly the strictly positive eigenvalues; with no positive eigenvalue the
\* statistic is 0 and the verdict is not cointegrated.
C23_TraceOverPositiveEigenvalues ==
    (Returned("ExecJohansenTest") /\ ret.kind = "ok")
        => /\ ret.testStatistic =
                 FNeg(PositiveLogSum(call.eig.values, Len(call.eig.values)))
           /\ (\A i \in 1..Len(call.eig.values) : ~FGt(call.eig.values[i], Zero))
                 => ret.testStatistic = Zero /\ ~ret.isCointegrated

C23_Witness ==
    /\ Returned("ExecJohansenTest")
    /\ ret.kind = "ok"
    /\ Len(call.eig.values) = 2
    /\ call.eig.values[1] = Q(-1, 2)
    /\ call.eig.values[2] = Q(1, 2)
    /\ ret.testStatistic = FNeg(Log(Q(1, 2)))

\* C24: for window <= i < length, upper[i] = m + 2s and lower[i] = m - 2s with m and
\* s the mean and standard deviation of series[i-window .. i-1]; hence
\* lower[i] <= upper[i] and (upper[i] + lower[i]) / 2 = m.
C24_BandsAroundWindowMean ==
    (Returned("CaclulateBollingerBands") /\ ret.kind = "ok")
        => \A i \in call.window..(Len(call.series) - 1) :
              LET subset == SubSeq(call.series, i - call.window + 1, i)
                  m      == CalcMean(subset)
                  sd     == CalcStandardDeviation(subset)
              IN  /\ ret.upper[i + 1] = FAdd(m, FMul(F(2), sd))
                  /\ ret.lower[i + 1] = FSub(m, FMul(F(2), sd))
                  /\ FLe(ret.lower[i + 1], ret.upper[i + 1])
                  /\ FEq(FDiv(FAdd(ret.upper[i + 1], ret.lower[i + 1]), F(2)), m)

\* bars in strictly increasing timestamp order
Chronological(bars) ==
    \A i \in 1..(Len(bars) - 1) : bars[i].Timestamp < bars[i + 1].Timestamp

\* out picks elements of in, in their order
IsSubsequence(out, in) ==
    \E pick \in [1..Len(out) -> 1..Len(in)] :
        /\ \A i \in 1..(Len(out) - 1) : pick[i] < pick[i + 1]
        /\ \A i \in 1..Len(out) : out[i] = in[pick[i]]

\* C25: for two inputs in strictly increasing timestamp order both outputs of
\* NormalizeBarData are in strictly increasing timestamp order, the first a
\* subsequence of seriesX and the second a subsequence of seriesY: bars are handed
\* on unmodified, none is made up.
C25_OutputsAreOrderedSubsequences ==
    (Returned("NormalizeBarData") /\ Chronological(call.seriesX)
        /\ Chronological(call.seriesY))
        => /\ Chronological(ret.seriesA)
           /\ Chronological(ret.seriesB)
           /\ IsSubsequence(ret.seriesA, call.seriesX)
           /\ IsSubsequence(ret.seriesB, call.seriesY)

C25_Witness ==
    /\ Returned("NormalizeBarData")
    /\ Len(call.seriesX) = 2
    /\ Len(call.seriesY) = 2
    /\ Chronological(call.seriesX)
    /\ Chronological(call.seriesY)
    /\ Len(ret.seriesA) = 2
    /\ ret.seriesA[1] # ret.seriesB[1]

\* C26: for every series of length >= 2 CalcMeanReversionHalfLife returns a failure
\* or a finite, strictly positive half-life; never NaN or an infinity with no error.
C26_HalfLifeDefinedOrFailure ==
    (Returned("CalcMeanReversionHalfLife") /\ Len(call.series) >= 2)
        => \/ ret.err # ""
           \/ IsFinite(ret.value) /\ FGt(ret.value, Zero)

\* C27: whatever the two inputs, repeated timestamps included, the outputs of
\* NormalizeBarData are no longer than either input.
C27_OutputNoLongerThanInputs ==
    Returned("NormalizeBarData")
        => /\ Len(ret.seriesA) = Len(ret.seriesB)
           /\ Len(ret.seriesA) <= Len(call.seriesX)
           /\ Len(ret.seriesA) <= Len(call.seriesY)

\* C28: across every interleaving of PublishSNSMessage, PollSQSMessage,
\* DeleteSQSMessage and SubscribeSQSToSNS calls at most one AWS session, one SNS
\* client and one SQS client are ever created, and every request goes through a
\* client that is not nil.
C28_OneSessionOneClientEach ==
    /\ aws.sessions <= 1
    /\ aws.snsClients <= 1
    /\ aws.sqsClients <= 1
    /\ ~aws.viaNil

\* C29: DataService attempts a stream connection only in an iteration whose
\* IsMarketOpen returned (true, nil); after an error or false it is waiting, has
\* not connected in that iteration, and the wait is never ended by the process
\* stopping.
C29_ConnectsOnlyWhenOpenAndKeepsWaiting ==
    /\ ds.connectedOn \subseteq {"open"}
    /\ ds.pc \in {"connect", "streaming"} => ds.market = "open"
    /\ ds.market \in {"err", "closed"} => ds.pc \in {"sleepErr", "sleepClosed"}
    /\ ds.pc \in {"sleepErr", "sleepClosed"} => ds.alive

\* the delete requests issued since the last poll for message m on queue q
DeletesOf(m, q) ==
    {i \in 1..Len(rev.deletes) : rev.deletes[i] = [message |-> m, queue |-> q]}

\* C30: when ReversionService is about to poll again, every message of the last
\* poll has had exactly one delete request, issued against the queue it was
\* polled from; a poll that returned an error is followed by no delete and the
\* loop goes on to its next iteration.
C30_EachMessageDeletedOnceFromItsQueue ==
    /\ rev.pc \in {"subscribe", "poll", "returned"} =>
          \A k \in 1..Len(rev.batch) :
             /\ Cardinality(DeletesOf(rev.batch[k], rev.polled)) = 1
             /\ Cardinality({i \in 1..Len(rev.deletes) :
                               rev.deletes[i].message = rev.batch[k]}) = 1
    /\ rev.lastPoll = "err" =>
          /\ rev.deletes = <<>>
          /\ rev.pc \in {"subscribe", "poll", "returned"}

=============================================================================
